---- MODULE Spec2Model ----
(***************************************************************************)
(* The dynamic tool registry of the MCP server of Agent0: the module-level *)
(* Map registeredAgents, its JSON backing file agents.json, the ListTools  *)
(* and CallTool request handlers, the agent factory and the startup        *)
(* sequence of main().  The repository holds two variants of the server:   *)
(* the Node one (HTTP transport, `void saveAgentsToFile()`) and the Deno   *)
(* one (stdio transport, `await saveAgentsToFile()`).                      *)
(***************************************************************************)
EXTENDS Integers, Sequences, FiniteSets, TLC

VARIABLES
    variant,           \* "node" | "deno": which server file runs
    env,               \* the environment variables read by getConfig
    phase,             \* position of main(): load, config, connect, serving, exited
    file,              \* content of agents.json
    registeredAgents,  \* the Map, as the sequence of its values in insertion order
    now,               \* the wall clock read by new Date(): later at each reading
    pc,                \* per creation slot: position of its CallTool handler
    req,               \* per creation slot: the request being (or last) processed
    resp,              \* per creation slot: the response built for it
    reply,             \* the last request answered without an await since the Map
                       \* last changed, and its response
    writes,            \* the writeFile calls in flight
    creations,         \* history: the calls of the generation collaborator so far
    factory,           \* per creation slot: what agentFactory resolved to
    config             \* what getConfig returned to main()

vars == <<variant, env, phase, file, registeredAgents, now, pc, req, resp, reply, writes, creations, factory, config>>

-----------------------------------------------------------------------------
(* Bounds of the model *)

\* largest number of create_agent calls that reach the factory in one run
MaxCreations == 2

\* the creation slots: create_agent calls that may await their factory or
\* their write at the same time
Requests == {1, 2}

-----------------------------------------------------------------------------
(* Values *)

UNDEF == "undefined"

RESERVED == "create_agent"

\* names the generation collaborator may produce
GenNames == {"create_agent", "stock_analyst", "code_reviewer"}
\* descriptions the generation collaborator may produce
GenDescriptions == {"generated"}
\* the inputSchema object the structured output carries
GenSchema == "schema{input}"

\* names a client may put in a CallTool request
CallNames == {"stock_analyst", "nonexistent_tool"}

\* the built-in tool descriptor
createAgentTool ==
    [name |-> RESERVED,
     description |-> "Dynamically create and register a new agent as an MCP tool.",
     inputSchema |-> "schema{specialty,goal,task,agent_type}"]

\* request.params.arguments: undefined, or an object whose fields may be missing
ArgsAbsent == [defined |-> FALSE, specialty |-> UNDEF, goal |-> UNDEF, task |-> UNDEF, agent_type |-> UNDEF]
ArgsEmptyObject == [defined |-> TRUE, specialty |-> UNDEF, goal |-> UNDEF, task |-> UNDEF, agent_type |-> UNDEF]
ArgsValid == [defined |-> TRUE, specialty |-> "Stock Analyst", goal |-> "Summarize ticker performance", task |-> "Analyze TSLA", agent_type |-> "analyst"]

ArgsSet == {ArgsAbsent, ArgsEmptyObject, ArgsValid}
\* the arguments of the calls of registered and unknown tools
StubArgsSet == {ArgsAbsent, ArgsValid}

NoRequest == [op |-> "none", name |-> "", args |-> ArgsAbsent]
NoResponse == [kind |-> "none", tools |-> <<>>, content |-> <<>>, isError |-> FALSE]
NoReply == [req |-> NoRequest, resp |-> NoResponse]

-----------------------------------------------------------------------------
(* The Map registeredAgents *)

\* Map.prototype.has
MapHas(agents, name) == \E i \in 1..Len(agents) : agents[i].name = name

\* Map.prototype.get (called where the key is present)
MapGet(agents, name) ==
    agents[CHOOSE i \in 1..Len(agents) : agents[i].name = name]

\* Mutant: set as a push onto a list, an existing key is not looked for
MapSetAppend(agents, agent) == Append(agents, agent)

\* Mutant: the value is never stored
MapSetDropped(agents, agent) == agents

\* Mutant: a cache of two entries, a new key evicts the oldest one
MapSetEvicting(agents, agent) ==
    IF MapHas(agents, agent.name)
    THEN [i \in 1..Len(agents) |->
             IF agents[i].name = agent.name THEN agent ELSE agents[i]]
    ELSE IF Len(agents) >= 2 THEN Append(Tail(agents), agent)
    ELSE Append(agents, agent)

\* Map.prototype.set with key = value.name: an existing key keeps its place
\* in the iteration order and gets the new value, a new key goes last
MapSet(agents, agent) ==
    IF MapHas(agents, agent.name)
    THEN [i \in 1..Len(agents) |->
             IF agents[i].name = agent.name THEN agent ELSE agents[i]]
    ELSE Append(agents, agent)

\* Array.from(registeredAgents.values())
MapValues(agents) == agents

Names(agents) == {agents[i].name : i \in 1..Len(agents)}

-----------------------------------------------------------------------------
(* agents.json *)

\* A file is absent, holds a JSON array, holds JSON that is no array, or holds
\* text that is no JSON (an empty or cut-off file included).  An element of
\* the array is an object or null.
FileAbsent == [kind |-> "absent", elems |-> <<>>]
FileInvalid == [kind |-> "invalid", elems |-> <<>>]
FileNonArray == [kind |-> "nonarray", elems |-> <<>>]
JsonObject(d) == [type |-> "object", members |-> d]
JsonArray(elems) == [kind |-> "array", elems |-> elems]

\* Mutant: the status is not written, every descriptor reads back as active
JsonStringifyNoStatus(agents) ==
    [kind |-> "array",
     elems |-> [i \in 1..Len(agents) |->
                  [type |-> "object",
                   members |-> [agents[i] EXCEPT !.status = "active"]]]]

\* Mutant: an append log, each save writes the newest descriptor only
JsonStringifyLast(agents) ==
    [kind |-> "array",
     elems |-> IF agents = <<>> THEN <<>>
               ELSE <<[type |-> "object", members |-> agents[Len(agents)]]>>]

\* JSON.stringify(agents, null, 2) of an array of descriptors
JsonStringify(agents) ==
    JsonArray([i \in 1..Len(agents) |-> JsonObject(agents[i])])

\* descriptors a file written by an earlier process may hold
Stored(name, description, status) ==
    [name |-> name, description |-> description, inputSchema |-> GenSchema,
     registeredAt |-> 0, status |-> status]

\* null has no members: none of the fields below is ever read
JsonNull == [type |-> "null", members |-> Stored(UNDEF, UNDEF, UNDEF)]

\* the files the server may find at its first start; an element may lack a
\* field (the second code_reviewer has no description)
InitialFiles ==
    {FileAbsent,
     FileInvalid,
     FileNonArray,
     JsonArray(<<JsonObject(Stored("stock_analyst", "d1", "inactive")),
                 JsonObject(Stored("create_agent", "d1", "active"))>>),
     JsonArray(<<JsonObject(Stored("code_reviewer", "d1", "active")),
                 JsonObject(Stored("code_reviewer", UNDEF, "active")),
                 JsonNull,
                 JsonObject(Stored("stock_analyst", "d1", "active"))>>)}

\* agents.forEach(agent => registeredAgents.set(agent.name, agent)): reading
\* agent.name of a null element throws, and the elements before it stay set
RECURSIVE LoadForEach(_, _)
LoadForEach(agents, elems) ==
    IF elems = <<>> THEN agents
    ELSE IF Head(elems).type = "null" THEN agents
    ELSE LoadForEach(MapSet(agents, Head(elems).members), Tail(elems))

\* the registry after loadAgentsFromFile: readTextFile or JSON.parse throwing
\* (absent or invalid file), or forEach missing on a non-array, leaves it as it was
LoadedRegistry(agents, f) ==
    IF f.kind = "array" THEN LoadForEach(agents, f.elems) ELSE agents

-----------------------------------------------------------------------------
(* Configuration *)

NoKey == ""

\* an environment variable: unset, or set to a text (a sequence of characters)
Unset == [set |-> FALSE, text |-> <<>>]
Text(s) == [set |-> TRUE, text |-> s]

\* the environments of the server runs: both keys set or one of them missing,
\* port and temperature left to their defaults
Envs ==
    {[GOOGLE_API_KEY |-> "g-key", MCP_SERVER_API_KEY |-> "s-key",
      MCP_SERVER_PORT |-> Unset, DEFAULT_TEMPERATURE |-> Unset],
     [GOOGLE_API_KEY |-> NoKey, MCP_SERVER_API_KEY |-> "s-key",
      MCP_SERVER_PORT |-> Unset, DEFAULT_TEMPERATURE |-> Unset],
     [GOOGLE_API_KEY |-> "g-key", MCP_SERVER_API_KEY |-> NoKey,
      MCP_SERVER_PORT |-> Unset, DEFAULT_TEMPERATURE |-> Unset]}

\* texts MCP_SERVER_PORT may be set to
PortTexts ==
    {<<>>, <<"8", "0", "8", "0">>, <<"9", "9", "9">>, <<"1", "0", "0", "0">>,
     <<"6", "5", "5", "3", "5">>, <<"6", "5", "5", "3", "6">>,
     <<"3", "0", "0", "0", ".", "5">>, <<"-", "8", "0", "8", "0">>, <<"a", "b", "c">>}

\* texts DEFAULT_TEMPERATURE may be set to
TemperatureTexts ==
    {<<"0", ".", "7">>, <<"2">>, <<"2", ".", "0", "5">>, <<"2", ".", "5">>,
     <<"-", "1">>, <<".", "5">>, <<"h", "o", "t">>}

\* the environments getConfig is checked with
ConfigEnvs ==
    {[GOOGLE_API_KEY |-> g, MCP_SERVER_API_KEY |-> k,
      MCP_SERVER_PORT |-> p, DEFAULT_TEMPERATURE |-> t] :
        g \in {"g-key", NoKey}, k \in {"s-key", NoKey},
        p \in {Unset} \cup {Text(x) : x \in PortTexts},
        t \in {Unset} \cup {Text(x) : x \in TemperatureTexts}}

\* DEFAULTS and the limits of configSchema
DefaultPort == 8080
DefaultTemperature == 0
MinPort == 1000
MaxPort == 65535
MinTemperature == 0
MaxTemperature == 2

Digits == <<"0", "1", "2", "3", "4", "5", "6", "7", "8", "9">>
IsDigit(c) == \E i \in 1..10 : Digits[i] = c
DigitValue(c) == (CHOOSE i \in 1..10 : Digits[i] = c) - 1

\* Number.prototype.toString of a natural number
RECURSIVE NumberToString(_)
NumberToString(n) ==
    IF n < 10 THEN <<Digits[n + 1]>>
    ELSE NumberToString(n \div 10) \o <<Digits[(n % 10) + 1]>>

\* the longest prefix of s made of digits
RECURSIVE DigitPrefix(_)
DigitPrefix(s) ==
    IF s = <<>> \/ ~IsDigit(Head(s)) THEN <<>>
    ELSE <<Head(s)>> \o DigitPrefix(Tail(s))

\* the value of a sequence of digits, after acc
RECURSIVE Decimal(_, _)
Decimal(acc, s) ==
    IF s = <<>> THEN acc ELSE Decimal(10 * acc + DigitValue(Head(s)), Tail(s))

RECURSIVE Power10(_)
Power10(k) == IF k = 0 THEN 1 ELSE 10 * Power10(k - 1)

\* a parsed number is NaN or the fraction num / 10^scale
NaN == [nan |-> TRUE, num |-> 0, scale |-> 0]
Number(num, scale) == [nan |-> FALSE, num |-> num, scale |-> scale]

Negative(s) == s # <<>> /\ Head(s) = "-"
Unsigned(s) == IF Negative(s) THEN Tail(s) ELSE s

\* parseInt(s, 10): an optional sign, then the digits up to the first other
\* character; NaN when there is no digit
ParseInt(s) ==
    LET digits == DigitPrefix(Unsigned(s))
        value == Decimal(0, digits)
    IN IF digits = <<>> THEN NaN
       ELSE Number(IF Negative(s) THEN 0 - value ELSE value, 0)

\* parseFloat(s): an optional sign, digits, and a fraction after a point
\* (exponents are left out); NaN when there is no digit
ParseFloat(s) ==
    LET whole == DigitPrefix(Unsigned(s))
        rest == SubSeq(Unsigned(s), Len(whole) + 1, Len(Unsigned(s)))
        fraction == IF rest # <<>> /\ Head(rest) = "." THEN DigitPrefix(Tail(rest)) ELSE <<>>
        value == Decimal(0, whole \o fraction)
    IN IF whole = <<>> /\ fraction = <<>> THEN NaN
       ELSE Number(IF Negative(s) THEN 0 - value ELSE value, Len(fraction))

\* getEnv(key, defaultValue): Node takes the variable when it is set
\* (`process.env[key] ?? defaultValue`), Deno when it is set and not empty
\* (`Deno.env.get(key) || defaultValue`)
GetEnv(v, x, defaultValue) ==
    IF v = "node"
    THEN (IF x.set THEN x.text ELSE defaultValue)
    ELSE (IF x.set /\ x.text # <<>> THEN x.text ELSE defaultValue)

ConfigValid(e) == e.GOOGLE_API_KEY # NoKey /\ e.MCP_SERVER_API_KEY # NoKey

\* Mutant: the schema has no limits on the port
PortValidUnbounded(n) == ~n.nan /\ n.scale = 0

\* z.number().int().min(1000).max(65535)
PortValid(n) == ~n.nan /\ n.scale = 0 /\ n.num >= MinPort /\ n.num <= MaxPort

\* z.number().min(0).max(2), on the fraction num / 10^scale
TemperatureValid(n) ==
    /\ ~n.nan
    /\ n.num >= MinTemperature * Power10(n.scale)
    /\ n.num <= MaxTemperature * Power10(n.scale)

\* no configuration: getConfig has not returned
NoConfig ==
    [kind |-> "none",
     google |-> [apiKey |-> NoKey, temperature |-> NaN],
     server |-> [port |-> 0, apiKey |-> NoKey]]

\* createConfig: the raw configuration read from the environment, and the
\* parsed configuration when configSchema.parse accepts it (NoConfig when it
\* throws a ZodError and the process exits)
CreateConfig(v, e) ==
    LET port == ParseInt(GetEnv(v, e.MCP_SERVER_PORT, NumberToString(DefaultPort)))
        temperature == ParseFloat(GetEnv(v, e.DEFAULT_TEMPERATURE, NumberToString(DefaultTemperature)))
    IN IF ConfigValid(e) /\ PortValid(port) /\ TemperatureValid(temperature)
       THEN [kind |-> "config",
             google |-> [apiKey |-> e.GOOGLE_API_KEY, temperature |-> temperature],
             server |-> [port |-> port.num, apiKey |-> e.MCP_SERVER_API_KEY]]
       ELSE NoConfig

-----------------------------------------------------------------------------
(* Responses *)

TextBlock(text) == [type |-> "text", text |-> text]

\* the catch block of the CallTool handler: `Error: ${error.message}`
ErrorResponse(message) ==
    [kind |-> "call", tools |-> <<>>,
     content |-> <<TextBlock(<<"Error: ">> \o message)>>, isError |-> TRUE]

SuccessResponse(text) ==
    [kind |-> "call", tools |-> <<>>, content |-> <<TextBlock(text)>>, isError |-> FALSE]

CreatedText(name) == <<"Agent '", name, "' created and registered successfully as a tool.">>

\* JSON.stringify(args): undefined for undefined, else the defined fields in order
StringifyField(args, k) == IF args[k] = UNDEF THEN <<>> ELSE <<k, ":", args[k]>>
StringifyArgs(args) ==
    IF ~args.defined THEN <<UNDEF>>
    ELSE <<"{">> \o StringifyField(args, "specialty") \o StringifyField(args, "goal")
         \o StringifyField(args, "task") \o StringifyField(args, "agent_type") \o <<"}">>

ExecutedText(name, args) == <<"Agent '", name, "' executed with args: ">> \o StringifyArgs(args)

\* Mutant: only the descriptors of status active are listed
ListActiveOnly(agents) ==
    LET active == SelectSeq(agents, LAMBDA a : a.status = "active")
    IN [kind |-> "list",
        tools |-> <<createAgentTool>> \o
                  [i \in 1..Len(active) |->
                      [name |-> active[i].name,
                       description |-> active[i].description,
                       inputSchema |-> active[i].inputSchema]],
        content |-> <<>>, isError |-> FALSE]

\* the tools array of the ListTools handler
ListToolsResponse(agents) ==
    [kind |-> "list",
     tools |-> <<createAgentTool>> \o
               [i \in 1..Len(MapValues(agents)) |->
                   [name |-> agents[i].name,
                    description |-> agents[i].description,
                    inputSchema |-> agents[i].inputSchema]],
     content |-> <<>>, isError |-> FALSE]

\* Mutant: the thrown message is returned as it is, without the catch block's prefix
CallRegisteredBareMessage(agents, name, args) ==
    IF MapHas(agents, name)
    THEN SuccessResponse(ExecutedText(name, args))
    ELSE [kind |-> "call", tools |-> <<>>,
          content |-> <<TextBlock(<<"Unknown tool: ", name>>)>>, isError |-> TRUE]

\* Mutant: a descriptor that is not active is treated as unknown
CallRegisteredActiveOnly(agents, name, args) ==
    IF MapHas(agents, name) /\ MapGet(agents, name).status = "active"
    THEN SuccessResponse(ExecutedText(name, args))
    ELSE ErrorResponse(<<"Unknown tool: ", name>>)

\* the CallTool handler for a name other than create_agent
CallRegistered(agents, name, args) ==
    IF MapHas(agents, name)
    THEN SuccessResponse(ExecutedText(name, args))
    ELSE ErrorResponse(<<"Unknown tool: ", name>>)

\* Mutant: the registry is looked up before the name is compared with create_agent
DispatchRegistryFirst(agents, name) ==
    IF MapHas(agents, name) THEN "registered"
    ELSE IF name = RESERVED THEN "create"
    ELSE "unknown"

\* the branch the CallTool handler takes: `if (name === 'create_agent')`
\* first, then `registeredAgents.get(name)`, then the throw
Dispatch(agents, name) ==
    IF name = RESERVED THEN "create"
    ELSE IF MapHas(agents, name) THEN "registered"
    ELSE "unknown"

\* `!args || typeof args !== 'object'`
ArgsRejected(args) == ~args.defined

\* Mutant: the descriptive fields are taken from the generated data
CreateAgentGenerated(request, agentData) ==
    [name |-> agentData.name, description |-> agentData.description,
     inputSchema |-> agentData.inputSchema,
     specialty |-> agentData.description, goal |-> agentData.description]

\* createAgent: the structured output, then the request's specialty and goal
CreateAgent(request, agentData) ==
    [name |-> agentData.name, description |-> agentData.description,
     inputSchema |-> agentData.inputSchema,
     specialty |-> request.specialty, goal |-> request.goal]

\* no agent: the value slot of a factory result that carries none
NoAgent ==
    [name |-> UNDEF, description |-> UNDEF, inputSchema |-> UNDEF,
     specialty |-> UNDEF, goal |-> UNDEF]

\* what awaiting modelWithStructure.invoke gives: the parsed output or a rejection
Resolved(agentData) == [settled |-> "resolved", value |-> agentData, detail |-> ""]
Thrown(detail) ==
    [settled |-> "rejected",
     value |-> [name |-> UNDEF, description |-> UNDEF, inputSchema |-> UNDEF],
     detail |-> detail]

\* what agentFactory resolved to: not called yet, null, or the agent
NotCalled == [result |-> "none", agent |-> NoAgent]
Null == [result |-> "null", agent |-> NoAgent]

\* Mutant: agentFactory has no catch block, the rejection of createAgent
\* reaches the handler
AgentFactoryRethrows(request, outcome) ==
    IF outcome.settled = "resolved"
    THEN [result |-> "agent", agent |-> CreateAgent(request, outcome.value)]
    ELSE [result |-> "thrown", agent |-> NoAgent]

\* agentFactory: the agent createAgent returned, null when it threw
AgentFactory(request, outcome) ==
    IF outcome.settled = "resolved"
    THEN [result |-> "agent", agent |-> CreateAgent(request, outcome.value)]
    ELSE Null

\* the value the handler puts in the Map
Registration(agent, t) ==
    [name |-> agent.name, description |-> agent.description,
     inputSchema |-> agent.inputSchema, registeredAt |-> t, status |-> "active"]

\* what createAgent may fail with: an error of the collaborator, output that
\* the schema's parser refuses, or a configuration it cannot read
GenErrors ==
    {"429 quota exceeded", "output does not match the schema",
     "Cannot read properties of undefined (reading 'model')"}

\* Mutant: the thrown error's message is handed on to the client
FactoryFailureDetailed(detail) == <<"Agent creation failed: ", detail>>

\* the message the CallTool catch block receives when the collaborator rejects
\* with `detail`: createAgent's catch block throws a new Error('Failed to
\* create agent'), agentFactory's catch block returns null for it, and the
\* handler throws Error('Agent creation failed') on `!agent`
FactoryFailureMessage(detail) == <<"Agent creation failed">>

\* what the structured-output call may resolve to
GenOutputs ==
    {[name |-> n, description |-> d, inputSchema |-> GenSchema] :
        n \in GenNames, d \in GenDescriptions}

-----------------------------------------------------------------------------------------------------------------------------------------------------
(* Startup: main() *)

Init ==
    /\ variant \in {"node", "deno"}
    /\ env \in Envs
    /\ phase = "load"
    /\ file \in InitialFiles
    /\ registeredAgents = <<>>
    /\ now = 1
    /\ pc = [r \in Requests |-> "idle"]
    /\ req = [r \in Requests |-> NoRequest]
    /\ resp = [r \in Requests |-> NoResponse]
    /\ reply = NoReply
    /\ writes = <<>>
    /\ creations = 0
    /\ factory = [r \in Requests |-> NotCalled]
    /\ config = NoConfig

\* Mutant: the NotFound error of the read is thrown on to main(), whose catch
\* block exits the process
LoadAgentsFromFileRethrows ==
    /\ phase = "load"
    /\ registeredAgents' = LoadedRegistry(registeredAgents, file)
    /\ phase' = IF file.kind = "absent" THEN "exited" ELSE "config"
    /\ reply' = NoReply
    /\ UNCHANGED <<factory, config, variant, env, file, now, pc, req, resp, writes, creations>>

\* await loadAgentsFromFile()
LoadAgentsFromFile ==
    /\ phase = "load"
    /\ registeredAgents' = LoadedRegistry(registeredAgents, file)
    /\ phase' = "config"
    /\ reply' = NoReply
    /\ UNCHANGED <<factory, config, variant, env, file, now, pc, req, resp, writes, creations>>

\* Mutant: the validation error is logged and main() goes on
GetConfigLenient ==
    /\ phase = "config"
    /\ phase' = "connect"
    /\ UNCHANGED <<factory, config, variant, env, file, registeredAgents, now, pc, req, resp, reply, writes, creations>>

\* getConfig(): an invalid configuration exits the process with status 1
GetConfig ==
    /\ phase = "config"
    /\ config' = CreateConfig(variant, env)
    /\ phase' = IF CreateConfig(variant, env).kind = "config" THEN "connect" ELSE "exited"
    /\ UNCHANGED <<factory, variant, env, file, registeredAgents, now, pc, req, resp, reply, writes, creations>>

\* await server.connect(transport) (and app.listen in the Node variant)
Connect ==
    /\ phase = "connect"
    /\ phase' = "serving"
    /\ UNCHANGED <<factory, config, variant, env, file, registeredAgents, now, pc, req, resp, reply, writes, creations>>

-----------------------------------------------------------------------------
(* Request handlers.  A handler runs without interruption up to its first  *)
(* await; only a create_agent call that reaches agentFactory awaits.       *)

ListToolsRequest == [op |-> "ListTools", name |-> "", args |-> ArgsAbsent]
CallToolRequest(name, args) == [op |-> "CallTool", name |-> name, args |-> args]

\* Mutant: the transport is connected before main() awaits the load
ListToolsBeforeLoad ==
    /\ phase \in {"load", "serving"}
    /\ reply' = [req |-> ListToolsRequest, resp |-> ListToolsResponse(registeredAgents)]
    /\ UNCHANGED <<factory, config, variant, env, phase, file, registeredAgents, now, pc, req, resp, writes, creations>>

\* Mutant: the listing also saves the registry
ListToolsSaving ==
    /\ phase = "serving"
    /\ reply' = [req |-> ListToolsRequest, resp |-> ListToolsResponse(registeredAgents)]
    /\ writes' = IF writes = <<>>
                 THEN <<[payload |-> JsonStringify(MapValues(registeredAgents)), owner |-> 0]>>
                 ELSE writes
    /\ UNCHANGED <<factory, config, variant, env, phase, file, registeredAgents, now, pc, req, resp, creations>>

\* the ListTools handler
ListTools ==
    /\ phase = "serving"
    /\ reply' = [req |-> ListToolsRequest, resp |-> ListToolsResponse(registeredAgents)]
    /\ UNCHANGED <<factory, config, variant, env, phase, file, registeredAgents, now, pc, req, resp, writes, creations>>

\* Mutant: the arguments are not checked, the factory is called with undefined
CallCreateAgentUnchecked(args) ==
    /\ phase = "serving"
    /\ ArgsRejected(args)
    /\ creations < MaxCreations
    /\ creations' = creations + 1
    /\ reply' = [req |-> CallToolRequest(RESERVED, args),
                 resp |-> ErrorResponse(<<"Agent creation failed">>)]
    /\ UNCHANGED <<factory, config, variant, env, phase, file, registeredAgents, now, pc, req, resp, writes>>

\* Mutant: the arguments are checked outside the try block, the Error leaves
\* the handler and the request ends in a protocol fault
CallCreateAgentRejectedThrows(args) ==
    /\ phase = "serving"
    /\ ArgsRejected(args)
    /\ reply' = [req |-> CallToolRequest(RESERVED, args),
                 resp |-> [kind |-> "fault", tools |-> <<>>, content |-> <<>>, isError |-> FALSE]]
    /\ UNCHANGED <<factory, config, variant, env, phase, file, registeredAgents, now, pc, req, resp, writes, creations>>

\* the CallTool handler, name = create_agent, arguments rejected
CallCreateAgentRejected(args) ==
    /\ phase = "serving"
    /\ Dispatch(registeredAgents, RESERVED) = "create"
    /\ ArgsRejected(args)
    /\ reply' = [req |-> CallToolRequest(RESERVED, args),
                 resp |-> ErrorResponse(<<"Invalid arguments for create_agent">>)]
    /\ UNCHANGED <<factory, config, variant, env, phase, file, registeredAgents, now, pc, req, resp, writes, creations>>

\* a slot holds no call in progress
Free(r) == pc[r] \in {"idle", "done"}

\* Mutant: the handler puts a placeholder in the Map before it awaits the factory
CallCreateAgentReserving(r, args) ==
    /\ phase = "serving"
    /\ Free(r)
    /\ \A q \in Requests : q < r => ~Free(q)
    /\ ~ArgsRejected(args)
    /\ creations < MaxCreations
    /\ creations' = creations + 1
    /\ req' = [req EXCEPT ![r] = CallToolRequest(RESERVED, args)]
    /\ resp' = [resp EXCEPT ![r] = NoResponse]
    /\ pc' = [pc EXCEPT ![r] = "factory"]
    /\ registeredAgents' =
          MapSet(registeredAgents,
                 [name |-> "pending", description |-> UNDEF, inputSchema |-> UNDEF,
                  registeredAt |-> now, status |-> "inactive"])
    /\ factory' = [factory EXCEPT ![r] = NotCalled]
    /\ UNCHANGED <<config, variant, env, phase, file, now, reply, writes>>

\* the CallTool handler, name = create_agent, up to `await agentFactory(args)`;
\* the call takes the first free slot
CallCreateAgent(r, args) ==
    /\ phase = "serving"
    /\ Dispatch(registeredAgents, RESERVED) = "create"
    /\ Free(r)
    /\ \A q \in Requests : q < r => ~Free(q)
    /\ ~ArgsRejected(args)
    /\ creations < MaxCreations
    /\ creations' = creations + 1
    /\ req' = [req EXCEPT ![r] = CallToolRequest(RESERVED, args)]
    /\ resp' = [resp EXCEPT ![r] = NoResponse]
    /\ pc' = [pc EXCEPT ![r] = "factory"]
    /\ factory' = [factory EXCEPT ![r] = NotCalled]
    /\ UNCHANGED <<config, variant, env, phase, file, registeredAgents, now, reply, writes>>

\* Mutant: createAgent calls the collaborator again after a rejection
FactoryFailsRetries(r, detail) ==
    /\ pc[r] = "factory"
    /\ creations < MaxCreations
    /\ creations' = creations + 1
    /\ UNCHANGED <<factory, config, variant, env, phase, file, registeredAgents, now, pc, req, resp, reply, writes>>

\* agentFactory resolves to null: the structured-output call rejected with
\* `detail` and createAgent threw
FactoryFails(r, detail) ==
    /\ pc[r] = "factory"
    /\ resp' = [resp EXCEPT ![r] = ErrorResponse(FactoryFailureMessage(detail))]
    /\ pc' = [pc EXCEPT ![r] = "done"]
    /\ factory' = [factory EXCEPT ![r] = AgentFactory(req[r].args, Thrown(detail))]
    /\ UNCHANGED <<config, variant, env, phase, file, registeredAgents, now, req, reply, writes, creations>>

\* agentFactory resolves to an agent: the handler sets it in the Map and calls
\* saveAgentsToFile, which takes its snapshot and starts the write at once;
\* the Node handler returns, the Deno handler awaits the write
FactoryReturns(r, agentData) ==
    /\ pc[r] = "factory"
    /\ LET agent == AgentFactory(req[r].args, Resolved(agentData)).agent
           after == MapSet(registeredAgents, Registration(agent, now))
       IN /\ registeredAgents' = after
          /\ writes' = Append(writes,
                 [payload |-> JsonStringify(MapValues(after)),
                  owner |-> IF variant = "deno" THEN r ELSE 0])
          /\ resp' = [resp EXCEPT ![r] = SuccessResponse(CreatedText(agent.name))]
    /\ now' = now + 1
    /\ pc' = [pc EXCEPT ![r] = IF variant = "deno" THEN "saving" ELSE "done"]
    /\ reply' = NoReply
    /\ factory' = [factory EXCEPT ![r] = AgentFactory(req[r].args, Resolved(agentData))]
    /\ UNCHANGED <<config, variant, env, phase, file, req, creations>>

\* Mutant: calling a registered agent deletes and sets its entry again, which
\* moves it to the end of the Map's iteration order
CallToolTouching(name, args) ==
    /\ phase = "serving"
    /\ name # RESERVED
    /\ reply' = [req |-> CallToolRequest(name, args),
                 resp |-> CallRegistered(registeredAgents, name, args)]
    /\ registeredAgents' =
          IF MapHas(registeredAgents, name)
          THEN Append(SelectSeq(registeredAgents, LAMBDA a : a.name # name),
                      MapGet(registeredAgents, name))
          ELSE registeredAgents
    /\ UNCHANGED <<factory, config, variant, env, phase, file, now, pc, req, resp, writes, creations>>

\* Mutant: the handler looks the name up in agents.json
CallToolFromFile(name, args) ==
    /\ phase = "serving"
    /\ name # RESERVED
    /\ reply' = [req |-> CallToolRequest(name, args),
                 resp |-> CallRegistered(LoadedRegistry(<<>>, file), name, args)]
    /\ UNCHANGED <<factory, config, variant, env, phase, file, registeredAgents, now, pc, req, resp, writes, creations>>

\* the CallTool handler, any other name
CallTool(name, args) ==
    /\ phase = "serving"
    /\ Dispatch(registeredAgents, name) # "create"
    /\ reply' = [req |-> CallToolRequest(name, args),
                 resp |-> CallRegistered(registeredAgents, name, args)]
    /\ UNCHANGED <<factory, config, variant, env, phase, file, registeredAgents, now, pc, req, resp, writes, creations>>

-----------------------------------------------------------------------------
(* writeFile opens the file, which cuts it to length 0, writes the text and *)
(* closes it.  The process never reads the file while it runs, so a write  *)
(* is one step here; a write that is cut short (by an error after the      *)
(* open, or by the end of the process) may leave a file that is no JSON.   *)

Remove(s, i) == [j \in 1..(Len(s) - 1) |-> IF j < i THEN s[j] ELSE s[j + 1]]

\* the handler that awaits write i, if any, goes on to its return
Released(i) ==
    [r \in Requests |-> IF writes[i].owner = r THEN "done" ELSE pc[r]]

WriteCompletes(i) ==
    /\ file' = writes[i].payload
    /\ writes' = Remove(writes, i)
    /\ pc' = Released(i)
    /\ UNCHANGED <<factory, config, variant, env, phase, registeredAgents, now, req, resp, reply, creations>>

\* Mutant: saveAgentsToFile throws the error of the write on, and the handler
\* that awaits it answers with that error
WriteFailsSurfaced(i, cut) ==
    /\ file' = IF cut THEN FileInvalid ELSE file
    /\ writes' = Remove(writes, i)
    /\ pc' = Released(i)
    /\ resp' = [r \in Requests |->
                  IF writes[i].owner = r THEN ErrorResponse(<<"write failed">>) ELSE resp[r]]
    /\ UNCHANGED <<factory, config, variant, env, phase, registeredAgents, now, req, reply, creations>>

\* Mutant: saveAgentsToFile has no try block, the rejection of the write is
\* unhandled and ends the process
WriteFailsFatal(i, cut) ==
    /\ file' = IF cut THEN FileInvalid ELSE file
    /\ writes' = Remove(writes, i)
    /\ pc' = Released(i)
    /\ phase' = "exited"
    /\ UNCHANGED <<factory, config, variant, env, registeredAgents, now, req, resp, reply, creations>>

\* the write throws, before the open (cut = FALSE) or after it (cut = TRUE):
\* saveAgentsToFile logs the error and returns
WriteFails(i, cut) ==
    /\ file' = IF cut THEN FileInvalid ELSE file
    /\ writes' = Remove(writes, i)
    /\ pc' = Released(i)
    /\ UNCHANGED <<factory, config, variant, env, phase, registeredAgents, now, req, resp, reply, creations>>

-----------------------------------------------------------------------------
(* The process is stopped and started again *)

\* cut = TRUE: the process ends in the middle of a write
Restart(cut) ==
    /\ phase \in {"serving", "exited"}
    /\ cut => writes # <<>>
    /\ file' = IF cut THEN FileInvalid ELSE file
    /\ phase' = "load"
    /\ registeredAgents' = <<>>
    /\ pc' = [r \in Requests |-> "idle"]
    /\ req' = [r \in Requests |-> NoRequest]
    /\ resp' = [r \in Requests |-> NoResponse]
    /\ reply' = NoReply
    /\ writes' = <<>>
    /\ factory' = [r \in Requests |-> NotCalled]
    /\ config' = NoConfig
    /\ UNCHANGED <<variant, env, now, creations>>

-----------------------------------------------------------------------------

Next ==
    \/ LoadAgentsFromFile
    \/ GetConfig
    \/ Connect
    \/ ListTools
    \/ \E args \in ArgsSet : CallCreateAgentRejected(args)
    \/ \E r \in Requests, args \in ArgsSet : CallCreateAgent(r, args)
    \/ \E r \in Requests, detail \in GenErrors : FactoryFails(r, detail)
    \/ \E r \in Requests, agentData \in GenOutputs : FactoryReturns(r, agentData)
    \/ \E name \in CallNames \cup {RESERVED}, args \in StubArgsSet : CallTool(name, args)
    \/ \E i \in 1..Len(writes) : WriteCompletes(i)
    \/ \E i \in 1..Len(writes), cut \in BOOLEAN : WriteFails(i, cut)
    \/ \E cut \in BOOLEAN : Restart(cut)

Spec == Init /\ [][Next]_vars

\* the runs in which no write to agents.json fails
NextWritesSucceed ==
    \/ LoadAgentsFromFile
    \/ GetConfig
    \/ Connect
    \/ ListTools
    \/ \E args \in ArgsSet : CallCreateAgentRejected(args)
    \/ \E r \in Requests, args \in ArgsSet : CallCreateAgent(r, args)
    \/ \E r \in Requests, detail \in GenErrors : FactoryFails(r, detail)
    \/ \E r \in Requests, agentData \in GenOutputs : FactoryReturns(r, agentData)
    \/ \E name \in CallNames \cup {RESERVED}, args \in StubArgsSet : CallTool(name, args)
    \/ \E i \in 1..Len(writes) : WriteCompletes(i)
    \/ \E cut \in BOOLEAN : Restart(cut)

SpecWritesSucceed == Init /\ [][NextWritesSucceed]_vars

\* the runs in which main() goes on, every handler that can take a step takes
\* it and every writeFile call settles.  Nothing in the code bounds the time
\* the structured-output call takes, so no fairness is assumed for it.
Startup == LoadAgentsFromFile \/ GetConfig \/ Connect
WriteSettles == \E i \in 1..Len(writes), cut \in BOOLEAN : WriteCompletes(i) \/ WriteFails(i, cut)

SpecFair == Init /\ [][Next]_vars /\ WF_vars(Startup) /\ WF_vars(WriteSettles)

\* the startup of the server in every environment of ConfigEnvs, without agents.json
InitConfig ==
    /\ variant \in {"node", "deno"}
    /\ env \in ConfigEnvs
    /\ phase = "load"
    /\ file = FileAbsent
    /\ registeredAgents = <<>>
    /\ now = 1
    /\ pc = [r \in Requests |-> "idle"]
    /\ req = [r \in Requests |-> NoRequest]
    /\ resp = [r \in Requests |-> NoResponse]
    /\ reply = NoReply
    /\ writes = <<>>
    /\ creations = 0
    /\ factory = [r \in Requests |-> NotCalled]
    /\ config = NoConfig

SpecConfig == InitConfig /\ [][Startup]_vars

-----------------------------------------------------------------------------
(* Observations used by the properties below *)

\* slot r holds the response its handler has returned
Returned(r) == pc[r] = "done"

\* slot r holds a create_agent call that returned success
Succeeded(r) == Returned(r) /\ ~resp[r].isError

\* slot r holds the success response of a creation that generated name n
CreatedAs(r, n) == resp[r] = SuccessResponse(CreatedText(n))

\* the names of a tools array
ToolNames(tools) == {tools[i].name : i \in 1..Len(tools)}

\* the names of the descriptors of a file that holds an array of objects
FileNames(f) ==
    {f.elems[i].members.name : i \in {j \in 1..Len(f.elems) : f.elems[j].type = "object"}}

\* the required fields of a creation request are present and non-empty
WellFormed(args) ==
    /\ args.defined
    /\ \A k \in {"specialty", "goal", "task"} : args[k] # UNDEF /\ args[k] # ""

-----------------------------------------------------------------------------
(* Properties *)

\* C1: no two descriptors in the registry share a name.
C1_UniqueNames ==
    \A i, j \in 1..Len(registeredAgents) :
        registeredAgents[i].name = registeredAgents[j].name => i = j

\* two concurrent creations generated the same name, next to another descriptor
C1_Witness ==
    /\ Len(registeredAgents) >= 2
    /\ Succeeded(1) /\ Succeeded(2)
    /\ resp[1] = resp[2]

\* C2: no descriptor in the registry ever has the reserved name create_agent.
C2_NoReservedName == ~MapHas(registeredAgents, RESERVED)

\* C3: a creation whose generated name is create_agent or the name of a
\* descriptor already in the registry fails and leaves the registry as it was.
C3_CollisionRejected ==
    [][\A r \in Requests, d \in GenOutputs :
          (FactoryReturns(r, d) /\ (d.name = RESERVED \/ MapHas(registeredAgents, d.name)))
          => (resp'[r].isError /\ registeredAgents' = registeredAgents)]_vars

\* C4: of two concurrent creations that generate the same name, exactly one
\* succeeds.  A call in slot 2 starts while slot 1 is busy, so a call in slot 1
\* that has registered its agent while slot 2 still awaits its factory ran
\* concurrently with it: the second one to register has to fail.
C4_ExactlyOneWinner ==
    [][\A d \in GenOutputs :
          (/\ d.name # RESERVED
           /\ FactoryReturns(2, d)
           /\ pc[1] \in {"saving", "done"} /\ CreatedAs(1, d.name))
          => resp'[2].isError]_vars

\* C5: two concurrent creations of distinct names both succeeded and every
\* write has completed (none fails under SpecWritesSucceed): both descriptors
\* are in the registry and in the file.
C5_BothPersisted ==
    \A n1, n2 \in GenNames \ {RESERVED} :
        (/\ n1 # n2
         /\ Succeeded(1) /\ CreatedAs(1, n1)
         /\ Succeeded(2) /\ CreatedAs(2, n2)
         /\ writes = <<>>)
        => /\ {n1, n2} \subseteq Names(registeredAgents)
           /\ file.kind = "array"
           /\ {n1, n2} \subseteq FileNames(file)

\* C6: when a creation has returned success naming a tool, the descriptor of
\* that name is in the registry, a ListTools answered since lists it and a
\* CallTool of that name answered since found it, whatever the state of the write.
C6_VisibleOnReturn ==
    \A r \in Requests, n \in GenNames :
        (Succeeded(r) /\ CreatedAs(r, n))
        => /\ MapHas(registeredAgents, n)
           /\ reply.req.op = "ListTools" => n \in ToolNames(reply.resp.tools)
           /\ (reply.req.op = "CallTool" /\ reply.req.name = n /\ n # RESERVED)
                 => reply.resp = SuccessResponse(ExecutedText(n, reply.req.args))

\* a creation has returned success, its write is still in flight, and a
\* ListTools has been answered since
C6_Witness ==
    \E r \in Requests :
        /\ Succeeded(r)
        /\ writes # <<>>
        /\ reply.req.op = "ListTools"
        /\ Len(reply.resp.tools) >= 2

\* C7: a ListTools response is the create_agent tool followed by one
\* {name, description, inputSchema} entry per descriptor of the registry,
\* whatever its status.
C7_ListShape ==
    reply.req.op = "ListTools" =>
        LET tools == reply.resp.tools IN
        /\ Len(tools) = 1 + Len(registeredAgents)
        /\ tools[1] = createAgentTool
        /\ \A i \in 1..Len(registeredAgents) :
              tools[i + 1] = [name |-> registeredAgents[i].name,
                              description |-> registeredAgents[i].description,
                              inputSchema |-> registeredAgents[i].inputSchema]

\* a ListTools answered from a registry that holds an inactive and an active descriptor
C7_Witness ==
    /\ reply.req.op = "ListTools"
    /\ \E i, j \in 1..Len(registeredAgents) :
          registeredAgents[i].status = "inactive" /\ registeredAgents[j].status = "active"

\* a step that changes the registry: a creation registers its agent, or the
\* process starts (the load) or is restarted
RegistryMutation ==
    \/ \E r \in Requests : pc[r] = "factory" /\ pc'[r] # "factory" /\ ~resp'[r].isError
    \/ phase = "load"
    \/ phase' = "load"

\* C8: ListTools answers with the listing of the registry, and no step other
\* than a registry mutation changes that listing: two ListTools requests with
\* no mutation between them return the same tools in the same order.
C8_IdempotentListing ==
    [][/\ reply'.req.op = "ListTools" =>
            reply'.resp = ListToolsResponse(registeredAgents')
       /\ RegistryMutation \/
            ListToolsResponse(registeredAgents') = ListToolsResponse(registeredAgents)]_vars

\* a ListTools answered after a creation and a call of a registered agent
C8_Witness ==
    /\ reply.req.op = "ListTools"
    /\ Len(reply.resp.tools) >= 3
    /\ \E r \in Requests : Succeeded(r)

C10_ArgumentsValidated ==
    \A r \in Requests :
        (req[r].op = "CallTool" /\ ~WellFormed(req[r].args))
        => /\ pc[r] \notin {"factory", "saving"}
           /\ Returned(r) => resp[r].isError

\* a response carried in band: a content array of text blocks and the flag
InBand(response) ==
    /\ response.kind = "call"
    /\ Len(response.content) >= 1
    /\ \A i \in 1..Len(response.content) : response.content[i].type = "text"
    /\ response.isError \in BOOLEAN

\* C11: every CallTool request that completes has an in-band response, and
\* rejected arguments, a failed generation and an unknown tool each give
\* isError = true.
C11_InBandResponses ==
    [][/\ reply'.req.op = "CallTool" => InBand(reply'.resp)
       /\ \A r \in Requests : pc'[r] = "done" => InBand(resp'[r])
       /\ (reply'.req.op = "CallTool" /\ reply'.req.name = RESERVED)
             => (ArgsRejected(reply'.req.args) /\ reply'.resp.isError)
       /\ \A r \in Requests, detail \in GenErrors :
             FactoryFails(r, detail) => (pc'[r] = "done" /\ resp'[r].isError)
       /\ (reply'.req.op = "CallTool" /\ reply'.req.name # RESERVED
              /\ ~MapHas(registeredAgents', reply'.req.name))
             => reply'.resp.isError]_vars

\* a creation has failed in the factory and a create_agent call without
\* arguments has been rejected
C11_Witness ==
    /\ \E r \in Requests : Returned(r) /\ resp[r].isError
    /\ reply.req = CallToolRequest(RESERVED, ArgsAbsent)
    /\ reply.resp.isError

\* the strings of a response's text blocks
Texts(response) ==
    UNION {{response.content[i].text[j] : j \in 1..Len(response.content[i].text)} :
              i \in 1..Len(response.content)}

\* C12: when the generation fails, the call returns isError = true with the
\* text "Error: Agent creation failed", which holds nothing of the
\* collaborator's error, and the registry, the writes in flight and the file
\* stay as they were.
C12_GenerationFailure ==
    [][\A r \in Requests, detail \in GenErrors :
          FactoryFails(r, detail)
          => /\ pc'[r] = "done"
             /\ resp'[r].isError
             /\ resp'[r].content = <<TextBlock(<<"Error: ", "Agent creation failed">>)>>
             /\ Texts(resp'[r]) \cap GenErrors = {}
             /\ registeredAgents' = registeredAgents
             /\ writes' = writes
             /\ file' = file]_vars

\* a creation has failed while the registry holds a descriptor and another
\* creation's write is in flight
C12_Witness ==
    /\ \E r \in Requests : Returned(r) /\ resp[r] = ErrorResponse(<<"Agent creation failed">>)
    /\ Len(registeredAgents) >= 1
    /\ writes # <<>>

\* C13: the response of a successful creation never waits for the write the
\* registration started: no handler is ever held between its Map.set and its
\* return by a write still in flight.
C13_ResponseNeverWaits ==
    \A r \in Requests : pc[r] # "saving"

\* C14: when a write fails the process keeps serving, the registry keeps
\* every descriptor, the responses already built stay as they were, and the
\* handler that awaited the write returns its isError = false response.
C14_FailedWriteNotFatal ==
    [][\A i \in 1..Len(writes), cut \in BOOLEAN :
          WriteFails(i, cut)
          => /\ phase' = "serving"
             /\ registeredAgents' = registeredAgents
             /\ Len(registeredAgents') >= 1
             /\ resp' = resp
             /\ \A r \in Requests :
                   writes[i].owner = r => (pc'[r] = "done" /\ ~resp'[r].isError)]_vars

\* a creation has returned success, a write of this run has failed after it
\* opened the file, and a ListTools has been answered from memory
C14_Witness ==
    /\ \E r \in Requests : Succeeded(r)
    /\ writes = <<>>
    /\ file = FileInvalid
    /\ reply.req.op = "ListTools"
    /\ Len(reply.resp.tools) = 1 + Len(registeredAgents)
    /\ Len(registeredAgents) >= 1

\* the tools a ListTools request is answered with after a start from file f
ListedAfterStart(f) == ToolNames(ListToolsResponse(LoadedRegistry(<<>>, f)).tools)

\* C15: a creation returned success and every write has completed (none
\* fails under SpecWritesSucceed); the process is stopped and started again:
\* the load puts the descriptor back and ListTools lists it.
C15_RestartDurability ==
    [][\A r \in Requests, n \in GenNames \ {RESERVED} :
          (/\ Succeeded(r) /\ CreatedAs(r, n)
           /\ writes = <<>>
           /\ Restart(FALSE))
          => /\ MapHas(LoadedRegistry(registeredAgents', file'), n)
             /\ n \in ListedAfterStart(file')]_vars

\* C16: a start without agents.json goes on to getConfig with an empty
\* registry, and ListTools answers with the create_agent tool alone until a
\* creation is requested.
C16_ColdStart ==
    [][/\ (LoadAgentsFromFile /\ file = FileAbsent)
          => /\ phase' = "config"
             /\ registeredAgents' = <<>>
             /\ ListToolsResponse(registeredAgents').tools = <<createAgentTool>>
       /\ (reply'.req.op = "ListTools" /\ file' = FileAbsent /\ creations' = 0)
          => reply'.resp.tools = <<createAgentTool>>]_vars

\* ListTools has been answered after a start without agents.json
C16_Witness ==
    /\ file = FileAbsent
    /\ creations = 0
    /\ phase = "serving"
    /\ reply.req.op = "ListTools"
    /\ reply.resp.tools = <<createAgentTool>>

\* the load of f throws something other than NotFound: the text is no JSON,
\* the value is no array, or an element is null
LoadFails(f) ==
    \/ f.kind \in {"invalid", "nonarray"}
    \/ f.kind = "array" /\ \E i \in 1..Len(f.elems) : f.elems[i].type = "null"

\* C17: when the load fails for another reason than a missing file, startup
\* goes on and the registry is empty.
C17_FailedLoadEmptyRegistry ==
    [][(LoadAgentsFromFile /\ LoadFails(file))
          => /\ phase' = "config"
             /\ registeredAgents' = <<>>]_vars

\* C18: the generation call is bounded by a timeout, so every create_agent
\* call that awaits its factory sooner or later leaves that await, whether
\* or not the collaborator answers.
C18_CreationEventuallyReturns ==
    \A r \in Requests : (pc[r] = "factory") ~> (pc[r] # "factory")

\* f holds the whole serialisation of an array of descriptors
CompleteSnapshot(f) ==
    /\ f.kind = "array"
    /\ \A i \in 1..Len(f.elems) : f.elems[i].type = "object"

\* C19: the file is replaced atomically: whenever its content changes, a
\* write failing or the process ending in the middle of a write included,
\* the new content is the whole serialisation of a registry snapshot.
C19_AtomicReplace ==
    [][file' # file => CompleteSnapshot(file')]_vars

\* C20: the write a registration starts carries the whole registry as it is
\* right after that registration, the new descriptor and every earlier one
\* included, and a write that completes with no other write in flight
\* leaves exactly its payload in the file.
C20_FullSnapshot ==
    [][/\ \A r \in Requests, d \in GenOutputs :
             FactoryReturns(r, d)
             => /\ Len(writes') = Len(writes) + 1
                /\ LET payload == writes'[Len(writes')].payload IN
                   /\ payload.kind = "array"
                   /\ Len(payload.elems) = Len(registeredAgents')
                   /\ \A i \in 1..Len(registeredAgents') :
                         payload.elems[i] = [type |-> "object", members |-> registeredAgents'[i]]
                   /\ d.name \in FileNames(payload)
                   /\ Names(registeredAgents) \subseteq FileNames(payload)
       /\ \A i \in 1..Len(writes) :
             (WriteCompletes(i) /\ Len(writes) = 1) => file' = writes[i].payload]_vars

\* the second registration's write has completed alone: the file holds both
\* descriptors, as the registry does
C20_Witness ==
    /\ Len(registeredAgents) >= 2
    /\ writes = <<>>
    /\ creations = 2
    /\ CompleteSnapshot(file)
    /\ Len(file.elems) = Len(registeredAgents)
    /\ \A i \in 1..Len(registeredAgents) : file.elems[i].members = registeredAgents[i]
    /\ \E r \in Requests : Succeeded(r) /\ registeredAgents[Len(registeredAgents)].registeredAt = now - 1

\* C21: CallTool of a registered name other than create_agent returns
\* isError = false with the one text block "Agent '<name>' executed with
\* args: <arguments>", whatever the descriptor's status, and changes neither
\* the registry nor the file nor the writes in flight.
C21_StubEcho ==
    [][(/\ reply' # reply
        /\ reply'.req.op = "CallTool"
        /\ reply'.req.name # RESERVED
        /\ MapHas(registeredAgents, reply'.req.name))
          => /\ ~reply'.resp.isError
             /\ Len(reply'.resp.content) = 1
             /\ reply'.resp.content[1].type = "text"
             /\ reply'.resp.content[1].text =
                   <<"Agent '", reply'.req.name, "' executed with args: ">>
                      \o StringifyArgs(reply'.req.args)
             /\ registeredAgents' = registeredAgents
             /\ file' = file
             /\ writes' = writes]_vars

\* an inactive agent has been called with arguments and has answered
C21_Witness ==
    /\ reply.req = CallToolRequest("stock_analyst", ArgsValid)
    /\ ~reply.resp.isError
    /\ MapHas(registeredAgents, "stock_analyst")
    /\ MapGet(registeredAgents, "stock_analyst").status = "inactive"

\* C22: ListTools changes neither the registry nor the file nor the writes
\* in flight nor any call in progress, and always returns a tools list.
C22_ListToolsPure ==
    [][ListTools
          => /\ registeredAgents' = registeredAgents
             /\ file' = file
             /\ writes' = writes
             /\ pc' = pc /\ resp' = resp
             /\ reply'.resp.kind = "list"
             /\ ~reply'.resp.isError
             /\ Len(reply'.resp.tools) >= 1]_vars

\* ListTools has been answered while the file is absent, a creation awaits
\* its factory and no write is in flight
C22_Witness ==
    /\ reply.req.op = "ListTools"
    /\ reply.resp.kind = "list"
    /\ file = FileAbsent
    /\ writes = <<>>
    /\ \E r \in Requests : pc[r] = "factory"

\* C23: the file is read by the startup load only.  In a running process the
\* registry changes only when a creation registers its agent, every answer
\* is computed from the registry, and a step that changes the file changes
\* neither the registry nor any answer.
C23_FileReadAtStartupOnly ==
    [][/\ (phase # "load" /\ phase' # "load" /\ registeredAgents' # registeredAgents)
          => \E r \in Requests, d \in GenOutputs :
                /\ FactoryReturns(r, d)
                /\ registeredAgents' = MapSet(registeredAgents, Registration(d, now))
       /\ reply'.req.op = "ListTools"
          => reply'.resp = ListToolsResponse(registeredAgents')
       /\ (reply'.req.op = "CallTool" /\ reply'.req.name # RESERVED)
          => reply'.resp = CallRegistered(registeredAgents', reply'.req.name, reply'.req.args)
       /\ (file' # file /\ phase' # "load")
          => (registeredAgents' = registeredAgents /\ reply' = reply /\ resp' = resp)]_vars

\* a registered agent has answered a call while agents.json holds no JSON
\* array and no write is in flight
C23_Witness ==
    /\ reply.req.op = "CallTool"
    /\ reply.req.name = "stock_analyst"
    /\ ~reply.resp.isError
    /\ file.kind # "array"
    /\ writes = <<>>
    /\ creations >= 1

\* C24: a process whose configuration lacks the Google API key or the server
\* API key exits at getConfig: it never connects, never serves a request
\* and never starts a creation.
C24_ConfigFailureHalts ==
    (env.GOOGLE_API_KEY = NoKey \/ env.MCP_SERVER_API_KEY = NoKey)
    => /\ phase \in {"load", "config", "exited"}
       /\ reply = NoReply
       /\ \A r \in Requests : pc[r] = "idle"
       /\ writes = <<>>

\* a process with a loaded registry and no server API key has exited
C24_Witness ==
    /\ phase = "exited"
    /\ env.MCP_SERVER_API_KEY = NoKey
    /\ Len(registeredAgents) >= 1

\* C25: a create_agent call changes the registry only when its factory
\* resolves with an agent: starting the call changes neither the registry nor
\* the writes, while a call awaits its factory ListTools and CallTool can be
\* answered, and answers show the registry as it is, without the pending agent.
C25_RegistryUntouchedWhileGenerating ==
    [][/\ \A r \in Requests :
             (pc[r] # "factory" /\ pc'[r] = "factory")
             => /\ registeredAgents' = registeredAgents
                /\ writes' = writes /\ file' = file
                /\ ListToolsResponse(registeredAgents') = ListToolsResponse(registeredAgents)
       /\ \A r \in Requests :
             (pc[r] = "factory" /\ pc'[r] = "factory" /\ phase' # "load")
             => /\ phase' = "serving"
                /\ registeredAgents' # registeredAgents
                      => \E q \in Requests \ {r} : pc[q] = "factory" /\ pc'[q] # "factory"
                /\ reply'.req.op = "ListTools"
                      => Len(reply'.resp.tools) = 1 + Len(registeredAgents')]_vars

\* ListTools has been answered with the create_agent tool alone while two
\* creations await their factory
C25_Witness ==
    /\ \A r \in Requests : pc[r] = "factory"
    /\ reply.req.op = "ListTools"
    /\ reply.resp.tools = <<createAgentTool>>
    /\ registeredAgents = <<>>

\* the names a client may ask for, create_agent apart
ClientNames == (GenNames \cup CallNames) \ {RESERVED}

C27_NoRetry ==
    [][/\ creations' # creations
          => /\ creations' = creations + 1
             /\ \E r \in Requests, args \in ArgsSet : CallCreateAgent(r, args)
       /\ \A r \in Requests :
             (pc'[r] = "factory" /\ pc[r] # "factory") => creations' = creations + 1
       /\ \A r \in Requests, detail \in GenErrors :
             FactoryFails(r, detail)
             => /\ pc'[r] = "done"
                /\ resp'[r].isError
                /\ creations' = creations]_vars

\* the only creation requested so far has failed after one call of the
\* collaborator
C27_Witness ==
    /\ creations = 1
    /\ registeredAgents = <<>>
    /\ pc[1] = "done" /\ resp[1].isError
    /\ pc[2] = "idle"

\* C28: while the process runs, a name in the registry stays there with the
\* registeredAt it has.
C28_RegisteredAtImmutable ==
    [][(phase # "load" /\ phase' # "load")
          => \A i \in 1..Len(registeredAgents) :
                /\ MapHas(registeredAgents', registeredAgents[i].name)
                /\ MapGet(registeredAgents', registeredAgents[i].name).registeredAt
                      = registeredAgents[i].registeredAt]_vars

\* C29: while the process runs, the set of names in the registry only grows.
C29_NeverDeleted ==
    [][phase' # "load"
          => /\ Names(registeredAgents) \subseteq Names(registeredAgents')
             /\ Len(registeredAgents') >= Len(registeredAgents)]_vars

\* a creation has added a third name to two loaded ones
C29_Witness ==
    /\ Cardinality(Names(registeredAgents)) = 3
    /\ \E r \in Requests : Succeeded(r)
    /\ \E i \in 1..Len(registeredAgents) : registeredAgents[i].registeredAt = 0

\* C30: while the process runs, a name that enters the registry enters it
\* with status active, and a name in the registry keeps the status it has.
C30_StatusStable ==
    [][(phase # "load" /\ phase' # "load")
          => /\ \A j \in 1..Len(registeredAgents') :
                   ~MapHas(registeredAgents, registeredAgents'[j].name)
                   => registeredAgents'[j].status = "active"
             /\ \A i \in 1..Len(registeredAgents) :
                   MapHas(registeredAgents', registeredAgents[i].name)
                   => MapGet(registeredAgents', registeredAgents[i].name).status
                         = registeredAgents[i].status]_vars

C32_RequestMetadataKept ==
    \A r \in Requests :
        factory[r].result = "agent"
        => /\ factory[r].agent.specialty = req[r].args.specialty
           /\ factory[r].agent.goal = req[r].args.goal
           /\ \E d \in GenOutputs :
                 /\ factory[r].agent.name = d.name
                 /\ factory[r].agent.description = d.description
                 /\ factory[r].agent.inputSchema = d.inputSchema

\* the factory has returned an agent for a request with a specialty and a goal
C32_Witness ==
    \E r \in Requests :
        /\ factory[r].result = "agent"
        /\ req[r].args = ArgsValid
        /\ factory[r].agent.specialty = "Stock Analyst"
        /\ factory[r].agent.name = "code_reviewer"

\* C33: agentFactory resolves to null or to an agent and never throws; a
\* call that has left its await has one of the two, null goes with the
\* response "Error: Agent creation failed" and an agent with a success.
C33_FactoryFailureIsAValue ==
    \A r \in Requests :
        /\ factory[r].result \in {"none", "null", "agent"}
        /\ pc[r] \in {"saving", "done"} <=> factory[r].result \in {"null", "agent"}
        /\ factory[r].result = "null"
              => (pc[r] = "done" /\ resp[r] = ErrorResponse(<<"Agent creation failed">>))
        /\ factory[r].result = "agent" => ~resp[r].isError

\* of two concurrent creations one got null and the other an agent
C33_Witness ==
    /\ factory[1].result = "null"
    /\ factory[2].result = "agent"

\* C34: create_agent without arguments is answered with the text
\* "Error: Invalid arguments for create_agent" and isError = true, calls no
\* factory and changes neither registry nor file nor writes; a factory is
\* only ever called with arguments that are an object.
C34_InvalidArguments ==
    [][/\ (reply' # reply /\ reply'.req.op = "CallTool" /\ reply'.req.name = RESERVED)
          => /\ ArgsRejected(reply'.req.args)
             /\ reply'.resp.isError
             /\ reply'.resp.content =
                   <<TextBlock(<<"Error: ", "Invalid arguments for create_agent">>)>>
             /\ creations' = creations
             /\ pc' = pc /\ factory' = factory
             /\ registeredAgents' = registeredAgents
             /\ file' = file
             /\ writes' = writes
       /\ \A r \in Requests :
             (pc'[r] = "factory" /\ pc[r] # "factory") => req'[r].args.defined]_vars

\* create_agent without arguments has been rejected while a creation awaits
\* its factory and another one's write is in flight
C34_Witness ==
    /\ reply.req = CallToolRequest(RESERVED, ArgsAbsent)
    /\ reply.resp = ErrorResponse(<<"Invalid arguments for create_agent">>)
    /\ \E r \in Requests : pc[r] = "factory"
    /\ writes # <<>>

\* C35: a CallTool request named create_agent is never answered by the stub
\* of a registered agent, also when the registry holds a descriptor of that
\* name: it is rejected for its arguments or it goes to the factory.
C35_ReservedNameDispatch ==
    /\ (reply.req.op = "CallTool" /\ reply.req.name = RESERVED)
          => /\ reply.resp # SuccessResponse(ExecutedText(RESERVED, reply.req.args))
             /\ reply.resp = ErrorResponse(<<"Invalid arguments for create_agent">>)
    /\ \A r \in Requests :
          req[r].op = "CallTool"
          => /\ req[r].name = RESERVED
             /\ resp[r] # SuccessResponse(ExecutedText(RESERVED, req[r].args))

\* the registry holds a descriptor named create_agent, a creation has gone
\* through and a create_agent call without arguments has been rejected
C35_Witness ==
    /\ MapHas(registeredAgents, RESERVED)
    /\ reply.req = CallToolRequest(RESERVED, ArgsAbsent)
    /\ reply.resp.isError
    /\ \E r \in Requests : Succeeded(r) /\ ~CreatedAs(r, RESERVED)

\* C36: until main() has loaded the file, read the configuration and
\* connected the transport, no request has been answered or started, and the
\* load starts from an empty registry.
C36_LoadBeforeConnect ==
    /\ phase \in {"load", "config", "connect"}
          => /\ reply = NoReply
             /\ \A r \in Requests : pc[r] = "idle" /\ factory[r].result = "none"
             /\ writes = <<>>
    /\ phase = "load" => registeredAgents = <<>>

\* ListTools has listed the two loaded descriptors before any creation
C36_Witness ==
    /\ phase = "serving"
    /\ creations = 0
    /\ reply.req.op = "ListTools"
    /\ Len(reply.resp.tools) = 3
    /\ Len(registeredAgents) = 2

AcceptablePort(v, p) ==
    \/ ~p.set
    \/ p.set /\ p.text \in {<<"8", "0", "8", "0">>, <<"1", "0", "0", "0">>,
                            <<"6", "5", "5", "3", "5">>, <<"3", "0", "0", "0", ".", "5">>}
    \/ v = "deno" /\ p.set /\ p.text = <<>>
AcceptableTemperature(t) ==
    \/ ~t.set
    \/ t.set /\ t.text \in {<<"0", ".", "7">>, <<"2">>, <<".", "5">>}
Acceptable(v, e) ==
    /\ e.GOOGLE_API_KEY # "" /\ e.MCP_SERVER_API_KEY # ""
    /\ AcceptablePort(v, e.MCP_SERVER_PORT)
    /\ AcceptableTemperature(e.DEFAULT_TEMPERATURE)

\* C38: a configuration getConfig returned has two non-empty keys, a port in
\* 1000..65535 (8080 when MCP_SERVER_PORT is unset) and a temperature in 0..2
\* (0 when DEFAULT_TEMPERATURE is unset); main() goes on with such a
\* configuration exactly in the acceptable environments and the process has
\* exited in every other one.
C38_ValidatedConfig ==
    /\ config.kind = "config"
          => /\ config.google.apiKey # "" /\ config.server.apiKey # ""
             /\ config.server.port \in 1000..65535
             /\ ~env.MCP_SERVER_PORT.set => config.server.port = 8080
             /\ ~config.google.temperature.nan
             /\ config.google.temperature.num >= 0
             /\ config.google.temperature.num <= 2 * Power10(config.google.temperature.scale)
             /\ ~env.DEFAULT_TEMPERATURE.set => config.google.temperature.num = 0
    /\ phase \in {"connect", "serving"} <=> config.kind = "config"
    /\ phase \in {"connect", "serving"} => Acceptable(variant, env)
    /\ phase = "exited" => ~Acceptable(variant, env)

\* the server runs with the largest port and the temperature .5
C38_Witness ==
    /\ phase = "serving"
    /\ config.kind = "config"
    /\ config.server.port = 65535
    /\ config.google.temperature = [nan |-> FALSE, num |-> 5, scale |-> 1]

====
